---- MODULE Spec2Model ----
(***************************************************************************)
(* A model of the `sam_tag` class decorator of sam_tags/sam_tag.py and of  *)
(* the StandardTag catalog of sam_tags/standard_tags.py.                   *)
(*                                                                         *)
(* A string is a sequence of one-character strings, so that the regular    *)
(* expression, str.startswith and str.islower are computed character by    *)
(* character.  An enumeration class is a record: its kind (which base      *)
(* classes it has) and the (name, value) pairs of its class body, in       *)
(* declaration order.                                                      *)
(***************************************************************************)
EXTENDS Integers, Sequences, FiniteSets, TLC

VARIABLES
    declared,                    \* the class as written by the user
    args,                        \* positional arguments of sam_tag(*args)
    kwargs,                      \* keyword arguments given to sam_tag, by name
    strict,                      \* keyword argument `strict`
    permit_standard_collisions,  \* keyword argument `permit_standard_collisions`
    enumeration,                 \* parameter of validate_sam_tag_enum
    pc,                          \* position in sam_tag / validate_sam_tag_enum
    errs,                        \* local list `errs` of validate_sam_tag_enum
    i,                           \* number of members the `for tag in enumeration` loop has done
    raised,                      \* the exception that left sam_tag, if any
    returned,                    \* the value sam_tag's decoration produced, if any
    previous,                    \* outcome of the earlier decoration of the same class, if any
    other                        \* a validation run by another caller at the same time

vars == <<declared, args, kwargs, strict, permit_standard_collisions, enumeration, pc,
          errs, i, raised, returned, previous, other>>

---------------------------------------------------------------------------
(* Bounds and input alphabets *)

MaxMembers == 3

\* Most members of a class body whose values are drawn from SharedValues.
MaxSharing == 4

NamePool == <<"XA", "XB", "XC", "XD", "XE", "XF">>

\* The member names of class bodies of at most n members.
Names(n) == {NamePool[k] : k \in 1..n}

\* Position of a member name in lexicographic order (the pool is sorted).
NameRank(n) == CHOOSE k \in 1..Len(NamePool) : NamePool[k] = n

ClassName == "BadTag"

UpperChars == {"A", "B", "C", "D", "E", "F", "G", "H", "I", "J", "K", "L", "M",
               "N", "O", "P", "Q", "R", "S", "T", "U", "V", "W", "X", "Y", "Z"}

LowerChars == {"a", "b", "c", "d", "e", "f", "g", "h", "i", "j", "k", "l", "m",
               "n", "o", "p", "q", "r", "s", "t", "u", "v", "w", "x", "y", "z"}

DigitChars == {"0", "1", "2", "3", "4", "5", "6", "7", "8", "9"}

---------------------------------------------------------------------------
(* sam_tags/standard_tags.py: the values of StandardTag, in definition order *)

StandardTag ==
    << <<"A", "M">>, <<"A", "S">>, <<"B", "C">>, <<"B", "Q">>, <<"B", "Z">>, <<"C", "B">>,
       <<"C", "C">>, <<"C", "G">>, <<"C", "M">>, <<"C", "O">>, <<"C", "P">>, <<"C", "Q">>,
       <<"C", "R">>, <<"C", "S">>, <<"C", "T">>, <<"C", "Y">>, <<"E", "2">>, <<"F", "I">>,
       <<"F", "S">>, <<"F", "Z">>, <<"G", "C">>, <<"G", "Q">>, <<"G", "S">>, <<"H", "0">>,
       <<"H", "1">>, <<"H", "2">>, <<"H", "I">>, <<"I", "H">>, <<"L", "B">>, <<"M", "C">>,
       <<"M", "D">>, <<"M", "F">>, <<"M", "I">>, <<"M", "L">>, <<"M", "M">>, <<"M", "Q">>,
       <<"N", "H">>, <<"N", "M">>, <<"O", "A">>, <<"O", "C">>, <<"O", "P">>, <<"O", "Q">>,
       <<"O", "X">>, <<"P", "G">>, <<"P", "Q">>, <<"P", "T">>, <<"P", "U">>, <<"Q", "2">>,
       <<"Q", "T">>, <<"Q", "X">>, <<"R", "2">>, <<"R", "G">>, <<"R", "T">>, <<"R", "X">>,
       <<"S", "2">>, <<"S", "A">>, <<"S", "M">>, <<"S", "Q">>, <<"T", "C">>, <<"T", "S">>,
       <<"U", "2">>, <<"U", "Q">> >>

\* StandardTagValues of a catalog that also holds the local-style code XG.
StandardTagValues_with_local ==
    {StandardTag[k] : k \in 1..Len(StandardTag)} \cup { <<"X", "G">> }

\* [standard_tag.value for standard_tag in StandardTag], as a set for `in`
StandardTagValues == {StandardTag[k] : k \in 1..Len(StandardTag)}

---------------------------------------------------------------------------
(* Inputs *)

\* Values tried in declarations of one member, beside every catalog code.
ProbeValues ==
    { <<>>,                      \* ""     empty string
      <<"a">>,                   \* "a"    one character
      <<"a", "b", "c">>,         \* "abc"  three characters
      <<"1", "a">>,              \* "1a"   starts with a digit
      <<"a", "_">>,              \* "a_"   second character not alphanumeric
      <<"X", "a", "\n">>,        \* "Xa\n" two characters and a trailing newline
      <<"a", "b", "\n">>,        \* "ab\n"
      <<"A", "A", "\n">>,        \* "AA\n"
      <<"A", "A">>,              \* "AA"   uppercase, not X/Y/Z
      <<"A", "1">>,              \* "A1"
      <<"a", "B">>,              \* "aB"   mixed case
      <<"x", "b">>,              \* "xb"   lowercase
      <<"a", "1">>,              \* "a1"   lowercase letter and digit
      <<"X", "G">>,              \* "XG"
      <<"Y", "1">>,              \* "Y1"
      <<"Z", "z">> }             \* "Zz"

\* Values tried in declarations of several members.
SmallValues == { <<"x", "b">>, <<"A", "A">>, <<"A", "M">>, <<"a">> }

AllValues == ProbeValues \cup StandardTagValues

Kinds == {"StrEnum", "StrMixin", "Enum", "str"}

\* Values tried in declarations where up to MaxSharing members share values.
SharedValues == { <<"x", "b">>, <<"X", "G">> }

DistinctNames(ms) == \A a, b \in 1..Len(ms) : ms[a].name = ms[b].name => a = b

MemberSeqs(n, names, vals) ==
    {ms \in [1..n -> [name : names, value : vals]] : DistinctNames(ms)}

\* The first n names of the pool, in ascending and in descending order.
NameOrders(n) ==
    {[k \in 1..n |-> NamePool[k]], [k \in 1..n |-> NamePool[n + 1 - k]]}

\* Class bodies of n members, named in ascending or descending order.
OrderedBodies(n, vals) ==
    {[k \in 1..n |-> [name |-> ord[k], value |-> vs[k]]] :
        ord \in NameOrders(n), vs \in [1..n -> vals]}

ClassBodies ==
    OrderedBodies(0, {}) \cup OrderedBodies(1, AllValues)
        \cup UNION {OrderedBodies(n, SmallValues) : n \in 2..MaxMembers}
        \cup UNION {MemberSeqs(n, Names(n), SharedValues) : n \in 2..MaxSharing}

Declarations == [kind : Kinds, members : ClassBodies]

NoClass == [kind |-> "None", members |-> <<>>]

\* "No exception": the value of `raised` while nothing has been raised.
NoException == [type |-> "None", name |-> "", header |-> "", lines |-> <<>>]

\* "No outcome": the value of `previous` when the class was not decorated before.
NoOutcome == [raised |-> NoException, returned |-> NoClass, known |-> FALSE]

\* The keywords of sam_tag and the keyword arguments a call can give.
Keywords == {"strict", "permit_standard_collisions"}

KeywordArgs == UNION {[K -> BOOLEAN] : K \in SUBSET Keywords}

NoKeywordArgs == [k \in {} |-> TRUE]

\* Python's None as the result of _validate_sam_tag.
None == [tag |-> <<>>, reason |-> "None"]

---------------------------------------------------------------------------
(* The enum machinery of Python that the decorator relies on *)

\* issubclass(enumeration, Enum)
IsSubclassOfEnum(e) == e.kind \in {"StrEnum", "StrMixin", "Enum"}

\* issubclass(enumeration, str)
IsSubclassOfStr(e) == e.kind \in {"StrEnum", "StrMixin", "str"}

\* A name whose value was already bound to an earlier name is an alias of
\* that earlier member: index of the member that name number k denotes.
Canonical(ms, k) == CHOOSE j \in 1..k :
    /\ ms[j].value = ms[k].value
    /\ \A h \in 1..(j - 1) : ms[h].value # ms[k].value

\* A member object: its class kind, its (canonical) name and its value.
Member(e, k) ==
    [kind |-> e.kind,
     name |-> e.members[Canonical(e.members, k)].name,
     value |-> e.members[k].value]

\* enumeration.__members__.items(): every name, aliases included, with the
\* member it denotes, in definition order.
MembersItems(e) ==
    [k \in 1..Len(e.members) |-> [tag_name |-> e.members[k].name, tag |-> Member(e, k)]]

\* iter(enumeration): the members in definition order, aliases left out.
RECURSIVE IterFrom(_, _)
IterFrom(e, k) ==
    IF k > Len(e.members) THEN <<>>
    ELSE IF Canonical(e.members, k) = k THEN <<Member(e, k)>> \o IterFrom(e, k + 1)
    ELSE IterFrom(e, k + 1)

Iter(e) == IterFrom(e, 1)

\* FormatTag writing the class of the member instead of the member.
FormatTag_class_only(tag) == <<ClassName>>

\* f"{tag}": a StrEnum member formats as its value, a member of an Enum
\* that mixes in str as "ClassName.MEMBER".
FormatTag(tag) ==
    IF tag.kind = "StrEnum" THEN tag.value ELSE <<ClassName, ".", tag.name>>

\* Sorted leaving the names in the order they were appended.
Sorted_as_appended(names) == names

\* sorted(names)
Sorted(names) == SortSeq(names, LAMBDA a, b : NameRank(a) < NameRank(b))

\* Index of `key` in a dict kept as a sequence of entries in insertion
\* order; 0 when the key is absent.
DictIndex(d, key) ==
    IF \E k \in 1..Len(d) : d[k].key = key
    THEN CHOOSE k \in 1..Len(d) : d[k].key = key
    ELSE 0

---------------------------------------------------------------------------
(* sam_tags/sam_tag.py *)

\* TAG_REGEX.match(value) is not None, for r"^[A-Za-z][A-Za-z0-9]$": `$`
\* matches at the end of the string and also just before a newline that
\* ends the string.
TAG_REGEX_match(value) ==
    /\ Len(value) >= 2
    /\ value[1] \in UpperChars \cup LowerChars
    /\ value[2] \in UpperChars \cup LowerChars \cup DigitChars
    /\ \/ Len(value) = 2
       \/ Len(value) = 3 /\ value[3] = "\n"

\* tag.startswith(prefix) for a one-character prefix
StartsWith(tag, prefix) == Len(tag) >= 1 /\ tag[1] = prefix

\* tag.islower(): at least one cased character and no uppercase one
IsLower(tag) ==
    /\ \E k \in 1..Len(tag) : tag[k] \in LowerChars
    /\ \A k \in 1..Len(tag) : tag[k] \notin UpperChars

\* _is_valid_local_tag without the lowercase alternative.
_is_valid_local_tag_prefix_only(tag) ==
    StartsWith(tag, "X") \/ StartsWith(tag, "Y") \/ StartsWith(tag, "Z")

_is_valid_local_tag(tag) ==
    StartsWith(tag, "X") \/ StartsWith(tag, "Y") \/ StartsWith(tag, "Z") \/ IsLower(tag)

\* _validate_sam_tag with the strict convention applied whatever `strict` is.
_validate_sam_tag_always_strict(tag, strict_) ==
    IF ~TAG_REGEX_match(tag.value)
    THEN [tag |-> FormatTag(tag),
          reason |-> "SAM tags must be two-character alphanumeric strings."]
    ELSE IF tag.value \in StandardTagValues
    THEN [tag |-> FormatTag(tag),
          reason |-> "Locally-defined SAM tags may not conflict with a predefined standard tag."]
    ELSE IF ~_is_valid_local_tag(tag.value)
    THEN [tag |-> FormatTag(tag),
          reason |-> "Locally-defined SAM tags must be lowercase or start with X, Y, or Z."]
    ELSE None

\* _validate_sam_tag with the strict convention checked before the catalog.
_validate_sam_tag_strict_first(tag, strict_) ==
    IF ~TAG_REGEX_match(tag.value)
    THEN [tag |-> FormatTag(tag),
          reason |-> "SAM tags must be two-character alphanumeric strings."]
    ELSE IF strict_ /\ ~_is_valid_local_tag(tag.value)
    THEN [tag |-> FormatTag(tag),
          reason |-> "Locally-defined SAM tags must be lowercase or start with X, Y, or Z."]
    ELSE IF tag.value \in StandardTagValues
    THEN [tag |-> FormatTag(tag),
          reason |-> "Locally-defined SAM tags may not conflict with a predefined standard tag."]
    ELSE None

_validate_sam_tag(tag, strict_) ==
    IF ~TAG_REGEX_match(tag.value)
    THEN [tag |-> FormatTag(tag),
          reason |-> "SAM tags must be two-character alphanumeric strings."]
    ELSE IF tag.value \in StandardTagValues
    THEN [tag |-> FormatTag(tag),
          reason |-> "Locally-defined SAM tags may not conflict with a predefined standard tag."]
    ELSE IF strict_ /\ ~_is_valid_local_tag(tag.value)
    THEN [tag |-> FormatTag(tag),
          reason |-> "Locally-defined SAM tags must be lowercase or start with X, Y, or Z."]
    ELSE None

\* values_to_names after the first k items of __members__ were recorded
RECURSIVE values_to_names(_, _)
values_to_names(items, k) ==
    IF k = 0 THEN <<>>
    ELSE LET d == values_to_names(items, k - 1)
             at == DictIndex(d, items[k].tag.value)
         IN  IF at = 0
             THEN Append(d, [key |-> items[k].tag.value, val |-> <<items[k].tag_name>>])
             ELSE [d EXCEPT ![at].val = Append(@, items[k].tag_name)]

\* value_counts after the first k items of __members__ were counted
RECURSIVE value_counts(_, _)
value_counts(items, k) ==
    IF k = 0 THEN <<>>
    ELSE LET d == value_counts(items, k - 1)
             at == DictIndex(d, items[k].tag.value)
         IN  IF at = 0
             THEN Append(d, [key |-> items[k].tag.value, val |-> 1])
             ELSE [d EXCEPT ![at].val = @ + 1]

\* IsDuplicated with the threshold off by one.
IsDuplicated_more_than_two(tag_count) == tag_count > 2

\* The condition under which a counted value is reported as duplicated.
IsDuplicated(tag_count) == tag_count > 1

\* The message line of one duplicated value.
DuplicateLine(names, tag_value) == [names |-> Sorted(names), value |-> tag_value]

\* The list `duplicates`, built from value_counts.items() in dict order.
RECURSIVE DuplicatesFrom(_, _, _)
DuplicatesFrom(counts, names, k) ==
    IF k > Len(counts) THEN <<>>
    ELSE (IF IsDuplicated(counts[k].val)
          THEN <<DuplicateLine(names[DictIndex(names, counts[k].key)].val, counts[k].key)>>
          ELSE <<>>)
         \o DuplicatesFrom(counts, names, k + 1)

\* _validate_unique_sam_tags: the ValueError it raises, or NoException.
_validate_unique_sam_tags(e) ==
    LET items == MembersItems(e)
        duplicates == DuplicatesFrom(value_counts(items, Len(items)),
                                     values_to_names(items, Len(items)), 1)
    IN  IF Len(duplicates) > 0
        THEN [type |-> "ValueError", name |-> ClassName,
              header |-> "The following SAM tags have duplicate values:",
              lines |-> duplicates]
        ELSE NoException

---------------------------------------------------------------------------
(* The state machine: one use of the decorator on one class *)

\* The defaults of the keywords in the signature of sam_tag.
DefaultStrict == TRUE

DefaultPermitStandardCollisions == FALSE

\* The value a parameter is bound to: the keyword argument given, else the default.
Bind(kw, name, default) == IF name \in DOMAIN kw THEN kw[name] ELSE default

\* The local state of a validation that is not running.
Idle ==
    [declared |-> NoClass, args |-> <<>>, strict |-> TRUE, enumeration |-> NoClass,
     pc |-> "idle", errs |-> <<>>, i |-> 0, raised |-> NoException, returned |-> NoClass]

TypeOK ==
    /\ declared \in Declarations
    /\ kwargs \in KeywordArgs
    /\ args \in {<<>>, <<declared>>}
    /\ strict \in BOOLEAN
    /\ permit_standard_collisions \in BOOLEAN
    /\ pc \in {"sam_tag", "decorate", "check_enum", "check_str", "unique", "for_tag", "done"}
    /\ i \in 0..Len(declared.members)

\* `@sam_tag` passes the class as the only positional argument and can give
\* no keyword; `@sam_tag(...)` passes no positional argument and any keywords.
\* A class statement never passes more than one positional argument, so the
\* AssertionError of line 95 is not part of the model.
\* A keyword that is not given takes the default of the signature (lines 22-23).
Init ==
    /\ declared \in Declarations
    /\ \/ /\ args = <<declared>>
          /\ kwargs = NoKeywordArgs
       \/ /\ args = <<>>
          /\ kwargs \in KeywordArgs
    /\ strict = Bind(kwargs, "strict", DefaultStrict)
    /\ permit_standard_collisions
          = Bind(kwargs, "permit_standard_collisions", DefaultPermitStandardCollisions)
    /\ enumeration = NoClass
    /\ pc = "sam_tag"
    /\ errs = <<>>
    /\ i = 0
    /\ raised = NoException
    /\ returned = NoClass
    /\ previous = NoOutcome
    /\ other = Idle

\* SamTag handing the class back unvalidated when it is the positional argument.
SamTag_bare_unvalidated ==
    /\ pc = "sam_tag"
    /\ IF Len(args) = 0
       THEN pc' = "decorate" /\ UNCHANGED <<enumeration, returned>>
       ELSE pc' = "done" /\ enumeration' = args[1] /\ returned' = args[1]
    /\ UNCHANGED <<declared, args, kwargs, strict, permit_standard_collisions, previous, other, errs, i, raised>>

\* sam_tag, lines 78-90: with no positional argument the closure is returned
\* (and the class statement then applies it); with one it is called at once.
SamTag ==
    /\ pc = "sam_tag"
    /\ IF Len(args) = 0
       THEN pc' = "decorate" /\ UNCHANGED enumeration
       ELSE pc' = "check_enum" /\ enumeration' = args[1]
    /\ UNCHANGED <<declared, args, kwargs, strict, permit_standard_collisions, previous, other, errs, i, raised, returned>>

\* The class statement applies the returned closure to the class.
Decorate ==
    /\ pc = "decorate"
    /\ enumeration' = declared
    /\ pc' = "check_enum"
    /\ UNCHANGED <<declared, args, kwargs, strict, permit_standard_collisions, previous, other, errs, i, raised, returned>>

\* validate_sam_tag_enum, lines 44-48
CheckEnum ==
    /\ pc = "check_enum"
    /\ IF ~IsSubclassOfEnum(enumeration)
       THEN /\ raised' = [type |-> "TypeError", name |-> ClassName,
                          header |-> "The sam_tag decorator may only be applied to Enum subclasses.",
                          lines |-> <<>>]
            /\ pc' = "done"
       ELSE /\ pc' = "check_str"
            /\ UNCHANGED raised
    /\ UNCHANGED <<declared, args, kwargs, strict, permit_standard_collisions, previous, other, enumeration, errs, i, returned>>

\* CheckStr without the raise: the class goes on to the content checks.
CheckStr_no_raise ==
    /\ pc = "check_str"
    /\ pc' = "unique"
    /\ UNCHANGED <<declared, args, kwargs, strict, permit_standard_collisions, previous, other, enumeration, errs, i, raised, returned>>

\* validate_sam_tag_enum, lines 50-54
CheckStr ==
    /\ pc = "check_str"
    /\ IF ~IsSubclassOfStr(enumeration)
       THEN /\ raised' = [type |-> "TypeError", name |-> ClassName,
                          header |-> "SAM tag classes should inherit from StrEnum or mix in str.",
                          lines |-> <<>>]
            /\ pc' = "done"
       ELSE /\ pc' = "unique"
            /\ UNCHANGED raised
    /\ UNCHANGED <<declared, args, kwargs, strict, permit_standard_collisions, previous, other, enumeration, errs, i, returned>>

\* ValidateUnique going on to the per-member checks whatever it finds.
ValidateUnique_no_raise ==
    /\ pc = "unique"
    /\ pc' = "for_tag"
    /\ errs' = <<>>
    /\ i' = 0
    /\ UNCHANGED <<declared, args, kwargs, strict, permit_standard_collisions, previous, other, enumeration, raised, returned>>

\* ValidateUnique with errs a list that outlives the call and is never emptied.
ValidateUnique_keeps_errs ==
    /\ pc = "unique"
    /\ LET exc == _validate_unique_sam_tags(enumeration)
       IN  IF exc.type # "None"
           THEN raised' = exc /\ pc' = "done" /\ UNCHANGED <<errs, i>>
           ELSE pc' = "for_tag" /\ i' = 0 /\ UNCHANGED <<raised, errs>>
    /\ UNCHANGED <<declared, args, kwargs, strict, permit_standard_collisions, previous, other, enumeration, returned>>

\* validate_sam_tag_enum, lines 56-58: the call of _validate_unique_sam_tags,
\* whose exception propagates, and `errs = []`
ValidateUnique ==
    /\ pc = "unique"
    /\ LET exc == _validate_unique_sam_tags(enumeration)
       IN  IF exc.type # "None"
           THEN raised' = exc /\ pc' = "done" /\ UNCHANGED <<errs, i>>
           ELSE pc' = "for_tag" /\ errs' = <<>> /\ i' = 0 /\ UNCHANGED raised
    /\ UNCHANGED <<declared, args, kwargs, strict, permit_standard_collisions, previous, other, enumeration, returned>>

\* ForTag keeping only the latest message instead of appending it.
ForTag_keeps_latest ==
    /\ pc = "for_tag"
    /\ i < Len(Iter(enumeration))
    /\ LET err_msg == _validate_sam_tag(Iter(enumeration)[i + 1], strict)
       IN  errs' = IF err_msg # None THEN <<err_msg>> ELSE errs
    /\ i' = i + 1
    /\ UNCHANGED <<declared, args, kwargs, strict, permit_standard_collisions, previous, other, enumeration, pc, raised, returned>>

\* validate_sam_tag_enum, lines 59-62: one iteration of `for tag in enumeration`
ForTag ==
    /\ pc = "for_tag"
    /\ i < Len(Iter(enumeration))
    /\ LET err_msg == _validate_sam_tag(Iter(enumeration)[i + 1], strict)
       IN  errs' = IF err_msg # None THEN Append(errs, err_msg) ELSE errs
    /\ i' = i + 1
    /\ UNCHANGED <<declared, args, kwargs, strict, permit_standard_collisions, previous, other, enumeration, pc, raised, returned>>

\* ReturnValue handing back a class rebuilt from the members as a StrEnum.
ReturnValue_rebuilt(e) == [kind |-> "StrEnum", members |-> e.members]

\* The value validate_sam_tag_enum returns on success.
ReturnValue(e) == e

\* Report validating again, instead of raising, when there are messages.
Report_retries ==
    /\ pc = "for_tag"
    /\ i = Len(Iter(enumeration))
    /\ IF Len(errs) > 0
       THEN pc' = "unique" /\ UNCHANGED returned
       ELSE pc' = "done" /\ returned' = ReturnValue(enumeration)
    /\ UNCHANGED <<declared, args, kwargs, strict, permit_standard_collisions, previous, other, enumeration, errs, i, raised>>

\* validate_sam_tag_enum, lines 64-69, once the loop is over
Report ==
    /\ pc = "for_tag"
    /\ i = Len(Iter(enumeration))
    /\ IF Len(errs) > 0
       THEN /\ raised' = [type |-> "ValueError", name |-> ClassName,
                          header |-> "The following SAM tags are invalid:",
                          lines |-> errs]
            /\ UNCHANGED returned
       ELSE /\ returned' = ReturnValue(enumeration)
            /\ UNCHANGED raised
    /\ pc' = "done"
    /\ UNCHANGED <<declared, args, kwargs, strict, permit_standard_collisions, previous, other, enumeration, errs, i>>

---------------------------------------------------------------------------
(* The same code as a function of the local state of one call, for the      *)
(* validations that run beside the one above and for comparing calls        *)

\* The local state of the call the variables above describe.
Local ==
    [declared |-> declared, args |-> args, strict |-> strict, enumeration |-> enumeration,
     pc |-> pc, errs |-> errs, i |-> i, raised |-> raised, returned |-> returned]

\* The local state of a call of sam_tag on class d that has not begun.
Call(d, a, st) ==
    [declared |-> d, args |-> a, strict |-> st, enumeration |-> NoClass,
     pc |-> "sam_tag", errs |-> <<>>, i |-> 0, raised |-> NoException, returned |-> NoClass]

\* One step of sam_tag / validate_sam_tag_enum from local state p: lines 78-90,
\* then lines 44-69.
Step(p) ==
    CASE p.pc = "sam_tag" ->
            IF Len(p.args) = 0
            THEN [p EXCEPT !.pc = "decorate"]
            ELSE [p EXCEPT !.pc = "check_enum", !.enumeration = p.args[1]]
      [] p.pc = "decorate" ->
            [p EXCEPT !.pc = "check_enum", !.enumeration = p.declared]
      [] p.pc = "check_enum" ->
            IF ~IsSubclassOfEnum(p.enumeration)
            THEN [p EXCEPT !.pc = "done",
                           !.raised = [type |-> "TypeError", name |-> ClassName,
                                       header |-> "The sam_tag decorator may only be applied to Enum subclasses.",
                                       lines |-> <<>>]]
            ELSE [p EXCEPT !.pc = "check_str"]
      [] p.pc = "check_str" ->
            IF ~IsSubclassOfStr(p.enumeration)
            THEN [p EXCEPT !.pc = "done",
                           !.raised = [type |-> "TypeError", name |-> ClassName,
                                       header |-> "SAM tag classes should inherit from StrEnum or mix in str.",
                                       lines |-> <<>>]]
            ELSE [p EXCEPT !.pc = "unique"]
      [] p.pc = "unique" ->
            LET exc == _validate_unique_sam_tags(p.enumeration)
            IN  IF exc.type # "None"
                THEN [p EXCEPT !.pc = "done", !.raised = exc]
                ELSE [p EXCEPT !.pc = "for_tag", !.errs = <<>>, !.i = 0]
      [] p.pc = "for_tag" /\ p.i < Len(Iter(p.enumeration)) ->
            LET err_msg == _validate_sam_tag(Iter(p.enumeration)[p.i + 1], p.strict)
            IN  [p EXCEPT !.i = p.i + 1,
                          !.errs = IF err_msg # None THEN Append(p.errs, err_msg) ELSE p.errs]
      [] p.pc = "for_tag" /\ p.i = Len(Iter(p.enumeration)) ->
            IF Len(p.errs) > 0
            THEN [p EXCEPT !.pc = "done",
                           !.raised = [type |-> "ValueError", name |-> ClassName,
                                       header |-> "The following SAM tags are invalid:",
                                       lines |-> p.errs]]
            ELSE [p EXCEPT !.pc = "done", !.returned = ReturnValue(p.enumeration)]
      [] OTHER -> p

\* The local state in which the call that is at p ends.
RECURSIVE RunToEnd(_)
RunToEnd(p) == IF p.pc \in {"done", "idle"} THEN p ELSE RunToEnd(Step(p))

\* What a call of sam_tag on class d ends with when it runs alone.
Outcome(d, a, st) ==
    LET end == RunToEnd(Call(d, a, st))
    IN  [raised |-> end.raised, returned |-> end.returned]

Next == SamTag \/ Decorate \/ CheckEnum \/ CheckStr \/ ValidateUnique \/ ForTag \/ Report

Spec == Init /\ [][Next]_vars

---------------------------------------------------------------------------
(* A call that is not abandoned, on classes of few members *)

MaxFewMembers == 2

\* Values of the members of these classes: one that follows the convention of
\* local tags, one that has the shape only, one that has not the shape.
FewValues == { <<"x", "b">>, <<"A", "A">>, <<"a">> }

FewBodies ==
    UNION {{[k \in 1..n |-> [name |-> NamePool[k], value |-> vs[k]]] :
               vs \in [1..n -> FewValues]} : n \in 0..MaxFewMembers}

InitFair == Init /\ declared.members \in FewBodies

\* The interpreter runs the call whenever it can: a call that has begun is not
\* abandoned.
SpecFair == InitFair /\ [][Next]_vars /\ WF_vars(Next)

---------------------------------------------------------------------------
(* The same class decorated a second time *)

\* sam_tag called again on the same class with the same arguments, once the
\* first call has returned or raised: a new call, whose locals are not yet
\* assigned (they hold what the first call left).
Again ==
    /\ pc = "done"
    /\ ~previous.known
    /\ previous' = [raised |-> raised, returned |-> returned, known |-> TRUE]
    /\ pc' = "sam_tag"
    /\ raised' = NoException
    /\ returned' = NoClass
    /\ UNCHANGED <<declared, args, kwargs, strict, permit_standard_collisions, other, enumeration, errs, i>>

NextTwice == Next \/ Again

SpecTwice == Init /\ [][NextTwice]_vars

---------------------------------------------------------------------------
(* Two classes decorated by two threads *)

\* The calls @sam_tag(strict=...) on a StrEnum that two threads make.
ConcurrentCalls ==
    {Call([kind |-> "StrEnum", members |-> ms], <<>>, st) :
        ms \in FewBodies, st \in BOOLEAN}

InitConc ==
    /\ declared \in {c.declared : c \in ConcurrentCalls}
    /\ args = <<>>
    /\ kwargs \in [{"strict"} -> BOOLEAN]
    /\ strict = Bind(kwargs, "strict", DefaultStrict)
    /\ permit_standard_collisions
          = Bind(kwargs, "permit_standard_collisions", DefaultPermitStandardCollisions)
    /\ enumeration = NoClass
    /\ pc = "sam_tag"
    /\ errs = <<>>
    /\ i = 0
    /\ raised = NoException
    /\ returned = NoClass
    /\ previous = NoOutcome
    /\ other \in ConcurrentCalls

\* OtherStep with errs one list that both calls write.
OtherStep_shared_errs ==
    /\ other.pc # "done"
    /\ other' = Step(other)
    /\ errs' = Step(other).errs
    /\ UNCHANGED <<declared, args, kwargs, strict, permit_standard_collisions, previous, enumeration, pc, i, raised, returned>>

\* A step of the other thread: it reads and writes its own locals only (the
\* catalog, which both read, is a constant).
OtherStep ==
    /\ other.pc # "done"
    /\ other' = Step(other)
    /\ UNCHANGED <<declared, args, kwargs, strict, permit_standard_collisions, previous, enumeration, pc, errs, i, raised, returned>>

NextConc == Next \/ OtherStep

SpecConc == InitConc /\ [][NextConc]_vars

---------------------------------------------------------------------------
(* Vocabulary of the claims, stated without the operators of the code *)

\* The class is an enumeration whose members are strings.
StrValued(d) == d.kind \in {"StrEnum", "StrMixin"}

Finished == pc = "done"

Accepted == pc = "done" /\ raised.type = "None"

Rejected == pc = "done" /\ raised.type # "None"

\* Shape rule: exactly two characters, a letter and then a letter or digit.
ShapeRule(v) ==
    /\ Len(v) = 2
    /\ v[1] \in UpperChars \cup LowerChars
    /\ v[2] \in UpperChars \cup LowerChars \cup DigitChars

IsStandardCode(v) == \E k \in 1..Len(StandardTag) : StandardTag[k] = v

\* Strict convention: starts with X, Y or Z, or every letter is lowercase.
StrictConvention(v) ==
    \/ Len(v) >= 1 /\ v[1] \in {"X", "Y", "Z"}
    \/ /\ \E k \in 1..Len(v) : v[k] \in LowerChars
       /\ \A k \in 1..Len(v) : v[k] \notin UpperChars

PairwiseDistinct(ms) == \A a, b \in 1..Len(ms) : ms[a].value = ms[b].value => a = b

NamesSharing(ms, v) == {ms[k].name : k \in {h \in 1..Len(ms) : ms[h].value = v}}

DuplicatedValues(ms) ==
    {ms[k].value : k \in {h \in 1..Len(ms) : Cardinality(NamesSharing(ms, ms[h].value)) > 1}}

InvalidShape == "SAM tags must be two-character alphanumeric strings."

StandardCollision ==
    "Locally-defined SAM tags may not conflict with a predefined standard tag."

NonConventionalLocalTag ==
    "Locally-defined SAM tags must be lowercase or start with X, Y, or Z."

InvalidHeader == "The following SAM tags are invalid:"

DuplicateHeader == "The following SAM tags have duplicate values:"

\* The error raised is the list of per-member violations.
RaisedInvalid == raised.type = "ValueError" /\ raised.header = InvalidHeader

\* The error raised is the list of duplicated values.
RaisedDuplicates == raised.type = "ValueError" /\ raised.header = DuplicateHeader

\* How member number k of the declared class is written in a message line.
Label(k) ==
    IF declared.kind = "StrEnum" THEN declared.members[k].value
    ELSE <<ClassName, ".", declared.members[k].name>>

\* The kinds of violation the raised error reports for member number k.
ReportedFor(k) ==
    IF RaisedInvalid
    THEN {raised.lines[n].reason : n \in {h \in 1..Len(raised.lines) : raised.lines[h].tag = Label(k)}}
    ELSE {}

MemberIndexes == 1..Len(declared.members)

\* Some rule of the declaration is violated, as the specification states them.
HasViolation ==
    \/ ~PairwiseDistinct(declared.members)
    \/ \E k \in MemberIndexes :
          \/ ~ShapeRule(declared.members[k].value)
          \/ IsStandardCode(declared.members[k].value) /\ ~permit_standard_collisions
          \/ strict /\ ~StrictConvention(declared.members[k].value)

---------------------------------------------------------------------------
(* Claims *)

\* C1: no partial acceptance.  Whenever a str-valued enumeration is accepted,
\* it has no violation: every value has the two-character shape, the values
\* are pairwise distinct, none is a StandardTag code unless
\* permit_standard_collisions, and under strict every value follows the
\* local-tag convention.
C1_NoPartialAcceptance ==
    (StrValued(declared) /\ Accepted) => ~HasViolation

\* C2: under strict=False, a str-valued declaration whose values all have the
\* shape, are pairwise distinct and are no StandardTag codes is accepted.
C2_NonStrictAccepts ==
    ( /\ Finished
      /\ StrValued(declared)
      /\ ~strict
      /\ PairwiseDistinct(declared.members)
      /\ \A k \in MemberIndexes :
            /\ ShapeRule(declared.members[k].value)
            /\ ~IsStandardCode(declared.members[k].value) )
    => Accepted

\* C2 witness: "AA" beside another member is accepted when strict is off.
C2_Witness ==
    /\ Accepted
    /\ StrValued(declared)
    /\ ~strict
    /\ Len(declared.members) >= 2
    /\ \E k \in MemberIndexes : declared.members[k].value = <<"A", "A">>

\* C3: every member whose value has not the two-character shape makes the
\* validation fail with a ValueError that carries InvalidShape for that
\* member, whatever the flags.  Stated for the declarations in which no
\* value is duplicated, where the per-member checks are reached.
C3_InvalidShapeReported ==
    (Finished /\ StrValued(declared) /\ PairwiseDistinct(declared.members))
    => \A k \in MemberIndexes :
          ~ShapeRule(declared.members[k].value)
          => (RaisedInvalid /\ InvalidShape \in ReportedFor(k))

\* C4 as stated: without permit_standard_collisions, every member whose value
\* is a StandardTag code makes the declaration rejected by a ValueError whose
\* violation for that member is StandardCollision and nothing else.
C4_StandardCollisionReported_Original ==
    (Finished /\ StrValued(declared) /\ ~permit_standard_collisions)
    => \A k \in MemberIndexes :
          IsStandardCode(declared.members[k].value)
          => (raised.type = "ValueError" /\ ReportedFor(k) = {StandardCollision})

\* C4 as amended: the declaration is always rejected by a ValueError, and
\* when no value of the declaration is duplicated the violation reported for
\* that member is StandardCollision and nothing else.
C4_StandardCollisionReported ==
    (Finished /\ StrValued(declared) /\ ~permit_standard_collisions)
    => \A k \in MemberIndexes :
          IsStandardCode(declared.members[k].value)
          => /\ raised.type = "ValueError"
             /\ PairwiseDistinct(declared.members)
                   => ReportedFor(k) = {StandardCollision}

\* C4 witness: under the defaults, a catalog code that also breaks the strict
\* convention is reported as a standard collision.
C4_Witness ==
    /\ Finished
    /\ StrValued(declared)
    /\ strict /\ ~permit_standard_collisions
    /\ \E k \in MemberIndexes :
          /\ declared.members[k].value = <<"P", "G">>
          /\ ReportedFor(k) = {StandardCollision}

\* C5: with permit_standard_collisions=True and strict=False, a declaration
\* whose only member has a StandardTag code as its value is accepted.
C5_PermittedCollisionAccepted ==
    ( /\ Finished
      /\ StrValued(declared)
      /\ permit_standard_collisions
      /\ ~strict
      /\ Len(declared.members) = 1
      /\ IsStandardCode(declared.members[1].value) )
    => Accepted

\* The lines of the duplicate-values error, when that is the error raised.
DuplicateLines == IF RaisedDuplicates THEN raised.lines ELSE <<>>

SeqToSet(q) == {q[n] : n \in 1..Len(q)}

C7_StrictConvention_Original ==
    (Finished /\ StrValued(declared) /\ strict)
    => \A k \in MemberIndexes :
          (ShapeRule(declared.members[k].value) /\ ~IsStandardCode(declared.members[k].value))
          => IF StrictConvention(declared.members[k].value)
             THEN ReportedFor(k) = {}
             ELSE Rejected /\ ReportedFor(k) = {NonConventionalLocalTag}

\* C7 as amended: the same, the NonConventionalLocalTag line being there when
\* no value of the declaration is duplicated; and a declaration all of whose
\* values have the shape, are no StandardTag codes, are pairwise distinct and
\* follow the convention is accepted.
C7_StrictConvention ==
    (Finished /\ StrValued(declared) /\ strict)
    => /\ \A k \in MemberIndexes :
             (ShapeRule(declared.members[k].value) /\ ~IsStandardCode(declared.members[k].value))
             => IF StrictConvention(declared.members[k].value)
                THEN ReportedFor(k) = {}
                ELSE /\ Rejected
                     /\ PairwiseDistinct(declared.members)
                           => ReportedFor(k) = {NonConventionalLocalTag}
       /\ ( /\ PairwiseDistinct(declared.members)
            /\ \A k \in MemberIndexes :
                  /\ ShapeRule(declared.members[k].value)
                  /\ ~IsStandardCode(declared.members[k].value)
                  /\ StrictConvention(declared.members[k].value) )
          => Accepted

\* C7 witness: under strict, "AA" beside "xb" is reported as non-conventional
\* and "xb" is not reported.
C7_Witness ==
    /\ Finished
    /\ StrValued(declared)
    /\ strict
    /\ \E k, h \in MemberIndexes :
          /\ declared.members[k].value = <<"A", "A">>
          /\ ReportedFor(k) = {NonConventionalLocalTag}
          /\ declared.members[h].value = <<"x", "b">>
          /\ ReportedFor(h) = {}

\* Member number k breaks a per-member rule of the specification.
BreaksMemberRule(k) ==
    \/ ~ShapeRule(declared.members[k].value)
    \/ IsStandardCode(declared.members[k].value) /\ ~permit_standard_collisions
    \/ strict /\ ~StrictConvention(declared.members[k].value)

\* C8 as stated: the error of a rejected declaration reports all its
\* violations, of both categories: every duplicated value and every member
\* that breaks a per-member rule.
C8_AllViolationsReported_Original ==
    (Finished /\ StrValued(declared) /\ raised.type = "ValueError")
    => /\ \A v \in DuplicatedValues(declared.members) :
             \E n \in 1..Len(DuplicateLines) : DuplicateLines[n].value = v
       /\ \A k \in MemberIndexes : BreaksMemberRule(k) => ReportedFor(k) # {}

\* The members of the declared class for which _validate_sam_tag gives a message.
FailingMembers ==
    {k \in MemberIndexes : _validate_sam_tag(Member(declared, k), strict) # None}

\* C8 as amended: violations are accumulated within a check category.  When a
\* value is duplicated the error is the duplicate-values error alone, with
\* every duplicated value in it; otherwise the loop over the members never
\* stops at a failure: the error has one line for every member whose check
\* gives a message, and the declaration is accepted when there is none.
C8_ViolationsReportedPerCategory ==
    (Finished /\ StrValued(declared))
    => IF ~PairwiseDistinct(declared.members)
       THEN /\ RaisedDuplicates
            /\ {raised.lines[n].value : n \in 1..Len(raised.lines)}
                  = DuplicatedValues(declared.members)
       ELSE IF FailingMembers # {}
       THEN /\ RaisedInvalid
            /\ Len(raised.lines) = Cardinality(FailingMembers)
            /\ \A k \in FailingMembers : ReportedFor(k) # {}
       ELSE Accepted

\* C8 witness: three members that fail three different per-member checks are
\* reported in one error.
C8_Witness ==
    /\ Finished
    /\ RaisedInvalid
    /\ Len(raised.lines) = 3
    /\ {raised.lines[n].reason : n \in 1..Len(raised.lines)}
          = {InvalidShape, StandardCollision, NonConventionalLocalTag}

\* C9: a class that is no Enum, or an Enum that is no str, never reaches a
\* content check and ends with a TypeError, never with a ValueError.
C9_StructuralPrecondition ==
    ~StrValued(declared)
    => /\ pc \notin {"unique", "for_tag"}
       /\ errs = <<>> /\ i = 0
       /\ raised.type # "ValueError"
       /\ Finished => (raised.type = "TypeError" /\ raised.lines = <<>>)

\* C9 witness: an Enum that is no str and whose values are duplicated and
\* shapeless ends with the TypeError.
C9_Witness ==
    /\ Finished
    /\ declared.kind = "Enum"
    /\ raised.type = "TypeError"
    /\ ~PairwiseDistinct(declared.members)
    /\ \E k \in MemberIndexes : ~ShapeRule(declared.members[k].value)

\* C10: an accepted declaration is returned as it was declared: same class,
\* same members, names, values and order.
C10_ReturnsDeclaration ==
    Accepted => returned = declared

\* C10 witness: a class of several members was accepted and returned.
C10_Witness ==
    /\ Accepted
    /\ Len(declared.members) >= 2
    /\ returned = declared

\* The outcome of the call that has finished.
ThisOutcome == [raised |-> raised, returned |-> returned]

\* Every keyword argument given has the value of its default.
KeywordsAreDefaults ==
    /\ "strict" \in DOMAIN kwargs => kwargs["strict"] = TRUE
    /\ "permit_standard_collisions" \in DOMAIN kwargs
          => kwargs["permit_standard_collisions"] = FALSE

\* C11: the bare decorator, the call form without arguments and the call form
\* with strict=True, permit_standard_collisions=False all validate strictly
\* and without permission, and end with the same outcome: the one of the bare
\* form and the one of the call form, both under strict=True.
C11_FormsAgree ==
    (Finished /\ KeywordsAreDefaults)
    => /\ strict = TRUE
       /\ permit_standard_collisions = FALSE
       /\ ThisOutcome = Outcome(declared, <<declared>>, TRUE)
       /\ ThisOutcome = Outcome(declared, <<>>, TRUE)

\* C11 witness: the call form with both defaults given explicitly rejected a
\* declaration for a value that only strict mode refuses.
C11_Witness ==
    /\ Finished
    /\ args = <<>>
    /\ DOMAIN kwargs = Keywords
    /\ KeywordsAreDefaults
    /\ RaisedInvalid
    /\ \E k \in MemberIndexes : ReportedFor(k) = {NonConventionalLocalTag}

Reasons == {InvalidShape, StandardCollision, NonConventionalLocalTag}

MemberNames == {declared.members[k].name : k \in MemberIndexes}

\* C12 as stated: a content rejection is one error that carries the name of
\* the declaration and at least one line, and every line names the offending
\* member by its member name and gives a reason.
C12_LinesNameMembers_Original ==
    (Finished /\ raised.type = "ValueError")
    => /\ raised.name = ClassName
       /\ Len(raised.lines) >= 1
       /\ RaisedDuplicates =>
             \A n \in 1..Len(raised.lines) :
                /\ raised.lines[n].names # <<>>
                /\ SeqToSet(raised.lines[n].names) \subseteq MemberNames
       /\ RaisedInvalid =>
             \A n \in 1..Len(raised.lines) :
                /\ raised.lines[n].reason \in Reasons
                /\ \E k \in MemberIndexes :
                      declared.members[k].name \in SeqToSet(raised.lines[n].tag)

\* C12 as amended: the same, a per-member line identifying its member by the
\* way the member is formatted (the value for a StrEnum, "Class.NAME" for an
\* Enum that mixes in str), one line for each member reported; a duplicate
\* line names the members that share the value and gives the value.
C12_LinesIdentifyMembers ==
    (Finished /\ raised.type = "ValueError")
    => /\ raised.name = ClassName
       /\ Len(raised.lines) >= 1
       /\ RaisedDuplicates \/ RaisedInvalid
       /\ RaisedDuplicates =>
             \A n \in 1..Len(raised.lines) :
                /\ Len(raised.lines[n].names) >= 2
                /\ SeqToSet(raised.lines[n].names)
                      = NamesSharing(declared.members, raised.lines[n].value)
       /\ RaisedInvalid =>
             /\ \A n \in 1..Len(raised.lines) :
                   /\ raised.lines[n].reason \in Reasons
                   /\ Cardinality({k \in MemberIndexes : Label(k) = raised.lines[n].tag}) = 1
             /\ \A n, m \in 1..Len(raised.lines) :
                   raised.lines[n].tag = raised.lines[m].tag => n = m

\* C12 witness: a StrEnum was rejected with two per-member lines.
C12_Witness ==
    /\ Finished
    /\ declared.kind = "StrEnum"
    /\ RaisedInvalid
    /\ Len(raised.lines) = 2

\* The class body with members number k and k + 1 exchanged.
Swap(ms, k) == [ms EXCEPT ![k] = ms[k + 1], ![k + 1] = ms[k]]

\* What the same call ends with on the declared class with members k, k + 1 exchanged.
SwappedOutcome(k) ==
    Outcome([declared EXCEPT !.members = Swap(declared.members, k)], <<>>, strict)

\* C13 as stated: a declaration with the same (name, value) pairs in another
\* order is rejected with the same sequence of messages.
C13_OrderIndependent_Original ==
    (Finished /\ raised.type = "ValueError")
    => \A k \in 1..(Len(declared.members) - 1) :
          SwappedOutcome(k).raised.lines = raised.lines

\* Index of the first member of the declared class with value v.
FirstWith(v) == CHOOSE k \in MemberIndexes :
    /\ declared.members[k].value = v
    /\ \A h \in 1..(k - 1) : declared.members[h].value # v

\* Index of the member of the declared class that a per-member line is about.
MemberOf(line) == CHOOSE k \in MemberIndexes : Label(k) = line.tag

\* C13 as amended: the messages follow the declaration order (per-member
\* lines in the order of the members, duplicate lines in the order in which
\* the values first occur), only the names inside a duplicate line being
\* sorted; a declaration with the same pairs in another order is rejected
\* with the same header and the same set of messages.
C13_DeclarationOrder ==
    (Finished /\ raised.type = "ValueError")
    => /\ RaisedInvalid =>
             \A n, m \in 1..Len(raised.lines) :
                n < m => MemberOf(raised.lines[n]) < MemberOf(raised.lines[m])
       /\ RaisedDuplicates =>
             /\ \A n, m \in 1..Len(raised.lines) :
                   n < m => FirstWith(raised.lines[n].value) < FirstWith(raised.lines[m].value)
             /\ \A n \in 1..Len(raised.lines) :
                   \A a, b \in 1..Len(raised.lines[n].names) :
                      a < b => NameRank(raised.lines[n].names[a]) < NameRank(raised.lines[n].names[b])
       /\ \A k \in 1..(Len(declared.members) - 1) :
             /\ SwappedOutcome(k).raised.header = raised.header
             /\ SeqToSet(SwappedOutcome(k).raised.lines) = SeqToSet(raised.lines)

\* C13 witness: exchanging two members gives the same messages in another order.
C13_Witness ==
    /\ Finished
    /\ RaisedInvalid
    /\ \E k \in 1..(Len(declared.members) - 1) :
          /\ SwappedOutcome(k).raised.lines # raised.lines
          /\ SeqToSet(SwappedOutcome(k).raised.lines) = SeqToSet(raised.lines)

\* C14: decorating the same class a second time with the same arguments ends
\* as the first time did (same class returned, or same exception type, header
\* and lines), which is what the call ends with by itself; the class that the
\* decorator holds or returns is the class declared, members unchanged. (The
\* catalog is a constant of the model: no step can change it.)
C14_Idempotent ==
    /\ (Finished /\ previous.known)
       => /\ raised = previous.raised
          /\ returned = previous.returned
          /\ ThisOutcome = Outcome(declared, args, strict)
    /\ enumeration \in {NoClass, declared}
    /\ returned \in {NoClass, declared}
    /\ previous.returned \in {NoClass, declared}

\* C14 witness: a class was rejected twice with two per-member lines.
C14_Witness ==
    /\ Finished
    /\ previous.known
    /\ RaisedInvalid
    /\ Len(raised.lines) = 2
    /\ previous.raised = raised

\* How far the call has come.
PcRank(p) ==
    CASE p = "sam_tag" -> 0
      [] p = "decorate" -> 1
      [] p = "check_enum" -> 2
      [] p = "check_str" -> 3
      [] p = "unique" -> 4
      [] p = "for_tag" -> 5
      [] p = "done" -> 6

\* C15: a call has no outcome until it ends, it does end, and it ends with
\* exactly one of a returned class and a raised exception; every step is taken
\* before the end and moves the call forward (to a later line, or to the next
\* member of the loop), so the outcome is final and nothing is validated twice.
C15_SingleTransition ==
    /\ [](~Finished => (returned = NoClass /\ raised = NoException))
    /\ [](Finished => ~((returned # NoClass) <=> (raised # NoException)))
    /\ [][/\ ~Finished
          /\ \/ PcRank(pc') > PcRank(pc)
             \/ pc' = pc /\ i' = i + 1]_vars
    /\ <>Finished

\* C15 witness: a call went through the loop over two members and returned the class.
C15_Witness ==
    /\ Finished
    /\ returned = declared
    /\ raised = NoException
    /\ i = 2

\* C16: every step of every interleaving is a step of one of the two calls
\* on its own locals, and at every point each call is where it would be alone:
\* run to its end from there it has the outcome and the list of messages that
\* the call has when nothing runs beside it.
C16_NoInterference ==
    /\ [](/\ RunToEnd(Local) = RunToEnd(Call(declared, args, strict))
          /\ RunToEnd(other) = RunToEnd(Call(other.declared, other.args, other.strict)))
    /\ [][\/ Local' = Step(Local) /\ other' = other
          \/ Local' = Local /\ other' = Step(other)]_vars

\* C16 witness: two calls on different classes ended, one with per-member
\* lines and the other with the duplicate-values error.
C16_Witness ==
    /\ Finished
    /\ other.pc = "done"
    /\ RaisedInvalid
    /\ Len(raised.lines) = 2
    /\ other.raised.header = DuplicateHeader
    /\ other.strict # strict

\* C17: a str-valued declaration with a duplicated value never reaches the
\* loop over the members; it ends with the duplicate-values ValueError, whose
\* lines are duplicate-value lines only, no member being reported for its
\* shape, a collision with a standard tag or the strict convention.
C17_UniquenessFirst ==
    (StrValued(declared) /\ ~PairwiseDistinct(declared.members))
    => /\ pc # "for_tag"
       /\ errs = <<>>
       /\ i = 0
       /\ Finished =>
             /\ RaisedDuplicates
             /\ \A n \in 1..Len(raised.lines) :
                   /\ DOMAIN raised.lines[n] = {"names", "value"}
                   /\ raised.lines[n].value \in DuplicatedValues(declared.members)
             /\ \A k \in MemberIndexes : ReportedFor(k) = {}

\* C17 witness: under strict, a declaration with a duplicated value, a value
\* without the shape and a StandardTag code ended with the duplicate-values
\* error.
C17_Witness ==
    /\ Finished
    /\ StrValued(declared)
    /\ strict
    /\ RaisedDuplicates
    /\ \E k \in MemberIndexes : ~ShapeRule(declared.members[k].value)
    /\ \E k \in MemberIndexes : IsStandardCode(declared.members[k].value)

\* C18: the invalid-tags error has at most one line for each member, the
\* first of shape, standard collision and strict convention that the value
\* breaks: a value that fails the shape rule is reported as InvalidShape only,
\* a StandardTag code as StandardCollision only, also under strict; there are
\* no more lines than members.
C18_OneViolationByPrecedence ==
    (Finished /\ StrValued(declared) /\ RaisedInvalid)
    => /\ Len(raised.lines) <= Len(declared.members)
       /\ \A k \in MemberIndexes :
             /\ Cardinality(ReportedFor(k)) <= 1
             /\ ~ShapeRule(declared.members[k].value)
                   => ReportedFor(k) = {InvalidShape}
             /\ (ShapeRule(declared.members[k].value) /\ IsStandardCode(declared.members[k].value))
                   => ReportedFor(k) = {StandardCollision}

\* The codes of the catalog are pairwise distinct, have the shape and do not
\* follow the convention of local tags.
CatalogFacts ==
    /\ \A a, b \in 1..Len(StandardTag) : StandardTag[a] = StandardTag[b] => a = b
    /\ \A a \in 1..Len(StandardTag) :
          /\ ShapeRule(StandardTag[a])
          /\ ~StrictConvention(StandardTag[a])
          /\ StandardTag[a][1] \notin {"X", "Y", "Z"}
          /\ \E c \in 1..Len(StandardTag[a]) : StandardTag[a][c] \in UpperChars

\* C19: the catalog facts hold, and no member whose value follows the strict
\* convention is ever reported as a collision with a standard tag.
C19_CatalogInvariant ==
    /\ CatalogFacts
    /\ \A k \in MemberIndexes :
          StrictConvention(declared.members[k].value)
             => StandardCollision \notin ReportedFor(k)

\* C19 witness: under strict, a declaration was rejected for a StandardTag
\* code beside a member that follows the convention and is not reported.
C19_Witness ==
    /\ Finished
    /\ strict
    /\ RaisedInvalid
    /\ \E k \in MemberIndexes :
          /\ ShapeRule(declared.members[k].value)
          /\ StrictConvention(declared.members[k].value)
          /\ ReportedFor(k) = {}
    /\ \E k \in MemberIndexes :
          /\ IsStandardCode(declared.members[k].value)
          /\ ReportedFor(k) = {StandardCollision}

\* What the call ends with, and what it would end with had strict the other value.
UnderStrict == IF strict THEN ThisOutcome ELSE Outcome(declared, args, TRUE)

UnderNonStrict == IF strict THEN Outcome(declared, args, FALSE) ELSE ThisOutcome

\* C20: a declaration accepted with strict=True is accepted with strict=False;
\* one rejected with strict=False is rejected with strict=True by the same
\* error, whose lines include those of strict=False, every further line being
\* a NonConventionalLocalTag line.
C20_StrictMonotone ==
    Finished
    => /\ UnderStrict.raised = NoException => UnderNonStrict = UnderStrict
       /\ UnderNonStrict.raised # NoException =>
             /\ UnderStrict.raised.type = UnderNonStrict.raised.type
             /\ UnderStrict.raised.header = UnderNonStrict.raised.header
       /\ SeqToSet(UnderNonStrict.raised.lines) \subseteq SeqToSet(UnderStrict.raised.lines)
       /\ \A line \in SeqToSet(UnderStrict.raised.lines) \ SeqToSet(UnderNonStrict.raised.lines) :
             line.reason = NonConventionalLocalTag

\* C20 witness: a declaration rejected under strict for two members is
\* rejected with strict off for one of them only.
C20_Witness ==
    /\ Finished
    /\ strict
    /\ RaisedInvalid
    /\ Len(UnderStrict.raised.lines) = 2
    /\ Len(UnderNonStrict.raised.lines) = 1

====
